---- MODULE Spec2Model ----
(***************************************************************************)
(* Model of hf_paper_agent.py: the ledger (PaperTracker), the orchestrator *)
(* (PaperManager.process_month / _process_paper / _update_index) and the   *)
(* command line entry point (main).                                        *)
(*                                                                         *)
(* Strings are sequences of one-character strings, so that formatting,     *)
(* parsing, sanitising and sorting are computed as the code computes them. *)
(***************************************************************************)
EXTENDS Integers, Sequences, FiniteSets, TLC

(***************************************************************************)
(* Bounds of the model.                                                    *)
(***************************************************************************)
\* Longest listing the Lister returns in one run.
MaxList == 2
\* Ticks of datetime.now() over all runs: one per paper handled and one per
\* interruption.
MaxClock == 3

(***************************************************************************)
(* Characters and strings.                                                 *)
(***************************************************************************)
\* The characters the model uses, in code point order (Python compares
\* strings by code point). "U+00E9" is the one character e-acute.
Alphabet ==
    << "\t", " ", "!", "#", "-", ".", "/",
       "0", "1", "2", "3", "4", "5", "6", "7", "8", "9",
       ":", "A", "B", "_", "a", "b", "d", "f", "m", "p", "x", "U+00E9" >>

Ord(c) == CHOOSE k \in 1..Len(Alphabet) : Alphabet[k] = c

DigitChars == <<"0", "1", "2", "3", "4", "5", "6", "7", "8", "9">>

IsDigit(c) == \E k \in 1..10 : DigitChars[k] = c

DigitVal(c) == (CHOOSE k \in 1..10 : DigitChars[k] = c) - 1

\* \s of the re module.
IsSpace(c) == c \in {" ", "\t"}

\* [A-Za-z0-9_]
IsAsciiWord(c) == IsDigit(c) \/ c \in {"A", "B", "a", "b", "d", "f", "m", "p", "x", "_"}

\* \w of the re module on str patterns: the letters and digits of Unicode and
\* the underscore.
IsWord(c) == IsAsciiWord(c) \/ c = "U+00E9"

\* a < b for Python strings.
StrLess(a, b) ==
    \E k \in 1..(Len(a) + 1) :
        /\ k <= Len(b)
        /\ \A j \in 1..(k - 1) : a[j] = b[j]
        /\ \/ k = Len(a) + 1
           \/ Ord(a[k]) < Ord(b[k])

\* sorted(S) for a set of strings.
RECURSIVE SortedStrs(_)
SortedStrs(S) ==
    IF S = {} THEN << >>
    ELSE LET m == CHOOSE x \in S : \A y \in S \ {x} : StrLess(x, y)
         IN  <<m>> \o SortedStrs(S \ {m})

Reverse(s) == [k \in 1..Len(s) |-> s[Len(s) + 1 - k]]

\* s.split(sep)
RECURSIVE Split(_, _)
Split(s, sep) ==
    IF \A k \in 1..Len(s) : s[k] # sep THEN <<s>>
    ELSE LET k == CHOOSE j \in 1..Len(s) :
                      s[j] = sep /\ \A h \in 1..(j - 1) : s[h] # sep
         IN  <<SubSeq(s, 1, k - 1)>> \o Split(SubSeq(s, k + 1, Len(s)), sep)

\* int(s) raises ValueError unless s is a non-empty run of digits (of the
\* characters the model uses).
IsInt(s) == Len(s) > 0 /\ \A k \in 1..Len(s) : IsDigit(s[k])

RECURSIVE ParseInt(_)
ParseInt(s) ==
    IF Len(s) = 0 THEN 0
    ELSE 10 * ParseInt(SubSeq(s, 1, Len(s) - 1)) + DigitVal(s[Len(s)])

\* str(n) for n >= 0.
RECURSIVE IntStr(_)
IntStr(n) ==
    IF n < 10 THEN <<DigitChars[n + 1]>>
    ELSE IntStr(n \div 10) \o <<DigitChars[(n % 10) + 1]>>

\* f"{n:02d}"
Pad2(n) == IF n < 10 THEN <<"0">> \o IntStr(n) ELSE IntStr(n)

\* f"{year}-{month:02d}"
MonthStr(year, month) == IntStr(year) \o <<"-">> \o Pad2(month)


(***************************************************************************)
(* Program constants.                                                      *)
(***************************************************************************)
\* safe_title = re.sub(...)[:100]
TitleLimit == 100
\* time.sleep(2)
SleepSecs == 2

(***************************************************************************)
(* main: the --month argument.                                             *)
(***************************************************************************)
\* year, month = map(int, args.month.split('-')) raises ValueError unless
\* there are exactly two parts and int() accepts both.
MonthParses(arg) ==
    LET parts == Split(arg, "-")
    IN  Len(parts) = 2 /\ IsInt(parts[1]) /\ IsInt(parts[2])

\* The (year, month) main goes on with.
ParseMonth(arg) ==
    LET parts == Split(arg, "-")
    IN  [year |-> ParseInt(parts[1]), month |-> ParseInt(parts[2])]

\* main prints "Invalid month format" and returns before building the
\* PaperManager.
MonthRejected(arg) == ~MonthParses(arg)

(***************************************************************************)
(* PaperTracker.                                                           *)
(***************************************************************************)
EmptyLedger == [k \in {} |-> 0]

NoPath == [dir |-> << >>, name |-> << >>]

NoMeta == [title |-> << >>, pdf_path |-> NoPath, md_path |-> NoPath, url |-> << >>]

\* Faulty variant of Key: the period is left out of the key.
Key_WithoutPeriod(month, paper_id) == paper_id

\* key = f"{month}/{paper_id}"
Key(month, paper_id) == month \o <<"/">> \o paper_id

\* Faulty variant of _save: only the complete entries are written.
_save_CompleteOnly(d) ==
    [kind |-> "json",
     papers |-> [k \in { j \in DOMAIN d : d[j].status = "complete" } |-> d[k]]]

\* The file after open(tracker_file, 'w') and a finished json.dump.
_save(d) == [kind |-> "json", papers |-> d]

\* The file after open(tracker_file, 'w') truncated it and json.dump did not
\* finish: no JSON document.
TruncatedFile == [kind |-> "partial", papers |-> EmptyLedger]

MissingFile == [kind |-> "missing", papers |-> EmptyLedger]

\* json.load raises on a file that holds no JSON document.
LoadRaises(file) == file.kind = "partial"

_load(file) == IF file.kind = "json" THEN file.papers ELSE EmptyLedger

\* Faulty variant of is_downloaded: the status is compared with a word the ledger
\* never holds.
is_downloaded_WrongWord(d, paper_id, month) ==
    (month \o <<"/">> \o paper_id) \in DOMAIN d
        /\ d[month \o <<"/">> \o paper_id].status = "completed"

\* Faulty variant of is_downloaded: any entry counts, whatever its status.
is_downloaded_AnyStatus(d, paper_id, month) ==
    (month \o <<"/">> \o paper_id) \in DOMAIN d

is_downloaded(d, paper_id, month) ==
    LET key == Key(month, paper_id)
    IN  key \in DOMAIN d /\ d[key].status = "complete"

mark_complete(d, paper_id, month, metadata, now) ==
    (Key(month, paper_id) :>
        [status |-> "complete", at |-> now, error |-> "", metadata |-> metadata])
    @@ d

mark_failed(d, paper_id, month, error, now) ==
    (Key(month, paper_id) :>
        [status |-> "failed", at |-> now, error |-> error, metadata |-> NoMeta])
    @@ d

(***************************************************************************)
(* The Lister's items.                                                     *)
(***************************************************************************)
HFPapers == <<"https://huggingface.co/papers/">>

Paper(id, title) == [paper_id |-> id, title |-> title, url |-> HFPapers \o id]

\* The papers of the listing page, in page order, with distinct ids
\* (seen_ids) and titles of at least 10 characters (shorter ones are dropped
\* by the Lister). The first two titles differ in punctuation and spacing
\* only.
Page ==
    << Paper(<<"1", ".", "1">>, <<"A", "a", " ", "b", "b", ":", " ", "a", "a", "a">>),
       Paper(<<"1", ".", "2">>, <<"A", "a", " ", " ", "b", "b", " ", "a", "a", "a">>),
       Paper(<<"1", ".", "3">>, <<"A", "b", " ", "a", "a", "a", "a", "a", "a", "a">>) >>

\* get_monthly_papers: the first n papers of the page (the page had that
\* many, or --limit n cut the list); none when the fetch fails or the page
\* has no paper link.
Listings ==
    { SubSeq(Page, 1, n) : n \in 0..(IF MaxList < Len(Page) THEN MaxList ELSE Len(Page)) }

\* The --month arguments given: a month, a thirteenth month, and a year
\* alone.
MonthArgs ==
    { <<"2", "0", "2", "5", "-", "9">>,
      <<"2", "0", "2", "5", "-", "1", "3">>,
      <<"2", "0", "2", "5">> }

\* The exceptions a record write raises.
Exceptions == { [type |-> "OSError", msg |-> "[Errno 28] No space left on device"] }

\* str(e)
ExcStr(e) == e.msg

(***************************************************************************)
(* PaperManager._process_paper: file names.                                *)
(***************************************************************************)
\* re.sub(r'[^\w\s-]', '', title)
StripPunct(s) == SelectSeq(s, LAMBDA c : IsWord(c) \/ IsSpace(c) \/ c = "-")

\* s[:n]
Truncate(s, n) == SubSeq(s, 1, IF Len(s) < n THEN Len(s) ELSE n)

\* re.sub(r'\s+', '-', s): the last character of each white space run
\* becomes the hyphen and the others of the run go ("" marks them).
CollapseSpace(s) ==
    LET marked == [k \in 1..Len(s) |->
                      IF ~IsSpace(s[k]) THEN s[k]
                      ELSE IF k < Len(s) /\ IsSpace(s[k + 1]) THEN ""
                      ELSE "-"]
    IN  SelectSeq(marked, LAMBDA c : c # "")

\* Faulty variant of SafeTitle: the title is cut before the punctuation is
\* removed.
SafeTitle_TruncateFirst(title) == CollapseSpace(StripPunct(Truncate(title, TitleLimit)))

SafeTitle(title) == CollapseSpace(Truncate(StripPunct(title), TitleLimit))

PdfPath(month, title) == [dir |-> month, name |-> SafeTitle(title) \o <<".", "p", "d", "f">>]

MdPath(month, title) == [dir |-> month, name |-> SafeTitle(title) \o <<".", "m", "d">>]

Metadata(paper, month) ==
    [title |-> paper.title,
     pdf_path |-> PdfPath(month, paper.title),
     md_path |-> MdPath(month, paper.title),
     url |-> paper.url]

(***************************************************************************)
(* Files.                                                                  *)
(***************************************************************************)
NoFiles == [p \in {} |-> 0]

WriteFile(files, path, content) == (path :> content) @@ files

\* The record _create_markdown writes: its first line and whose record it is.
Record(paper) == [first_line |-> <<"#", " ">> \o paper.title, paper_id |-> paper.paper_id]

\* A record file opened for writing and not written.
TruncatedRecord == [first_line |-> << >>, paper_id |-> << >>]

(***************************************************************************)
(* PaperManager._update_index.                                             *)
(***************************************************************************)
\* s.strip()
RECURSIVE Strip(_)
Strip(s) ==
    IF s = << >> THEN s
    ELSE IF IsSpace(s[1]) THEN Strip(Tail(s))
    ELSE IF IsSpace(s[Len(s)]) THEN Strip(SubSeq(s, 1, Len(s) - 1))
    ELSE s

\* s.replace('# ', '')
RECURSIVE DropHeading(_)
DropHeading(s) ==
    IF Len(s) < 2 THEN s
    ELSE IF s[1] = "#" /\ s[2] = " " THEN DropHeading(SubSeq(s, 3, Len(s)))
    ELSE <<s[1]>> \o DropHeading(Tail(s))

\* title = f.readline().strip().replace('# ', '')
IndexTitle(content) == DropHeading(Strip(content.first_line))

\* for md_file in sorted(month_dir.glob("*.md")): (month, title, rel_path)
MonthPapers(month, mds) ==
    LET names == SortedStrs({ p.name : p \in { q \in DOMAIN mds : q.dir = month } })
    IN  [k \in 1..Len(names) |->
            LET path == [dir |-> month, name |-> names[k]]
            IN  [month |-> month, title |-> IndexTitle(mds[path]), path |-> path]]

\* for month_dir in sorted(Config.PAPERS_DIR.iterdir(), reverse=True)
RECURSIVE AllPapers(_, _)
AllPapers(months, mds) ==
    IF months = << >> THEN << >>
    ELSE MonthPapers(months[1], mds) \o AllPapers(Tail(months), mds)

\* Faulty variant of IndexMonths: the month directories in ascending order.
IndexMonths_Ascending(ds) == SortedStrs(ds)

\* sorted(Config.PAPERS_DIR.iterdir(), reverse=True)
IndexMonths(ds) == Reverse(SortedStrs(ds))

\* The lines under "## Papers by Month": a heading whenever the month
\* changes, then one line per paper.
RECURSIVE IndexLines(_, _)
IndexLines(all_papers, current_month) ==
    IF all_papers = << >> THEN << >>
    ELSE LET e == all_papers[1]
             line == [heading |-> FALSE, month |-> e.month, title |-> e.title, path |-> e.path]
             head == [heading |-> TRUE, month |-> e.month, title |-> << >>, path |-> NoPath]
         IN  (IF e.month # current_month THEN <<head, line>> ELSE <<line>>)
             \o IndexLines(Tail(all_papers), e.month)

NoIndex == [kind |-> "missing", total |-> 0, lines |-> << >>]

TruncatedIndex == [kind |-> "partial", total |-> 0, lines |-> << >>]

_update_index(ds, mds) ==
    LET all_papers == AllPapers(IndexMonths(ds), mds)
    IN  [kind |-> "written", total |-> Len(all_papers),
         lines |-> IndexLines(all_papers, << >>)]

(***************************************************************************)
(* Calls that return or raise.                                             *)
(***************************************************************************)
Return(v) == [raised |-> FALSE, value |-> v]

Raise(e) == [raised |-> TRUE, exc |-> e]

(***************************************************************************)
(* PaperDownloader.extract_text_from_pdf.                                  *)
(***************************************************************************)
\* What the extractor meets: a PDF that PyPDF2 reads, no PyPDF2 installed,
\* a PDF on which PdfReader or extract_text raises.
PdfCases == {"readable", "no_library", "unreadable"}

NoPyPDF2 == [type |-> "ImportError", msg |-> "No module named 'PyPDF2'"]

PdfReadError == [type |-> "PdfReadError", msg |-> "EOF marker not found"]

\* Lines 286-292: import PyPDF2, read the pages, join their text.
ReadPdf(pdf) ==
    IF pdf = "no_library" THEN Raise(NoPyPDF2)
    ELSE IF pdf = "unreadable" THEN Raise(PdfReadError)
    ELSE Return("text of the pages")

\* Faulty variant of extract_text_from_pdf: only the ImportError is caught.
extract_text_from_pdf_Propagates(pdf) ==
    LET r == ReadPdf(pdf)
    IN  IF r.raised /\ r.exc.type = "ImportError"
        THEN Return("[PDF text extraction requires PyPDF2 library]")
        ELSE r

extract_text_from_pdf(pdf) ==
    LET r == ReadPdf(pdf)
    IN  IF ~r.raised THEN r
        ELSE IF r.exc.type = "ImportError"
             THEN Return("[PDF text extraction requires PyPDF2 library]")
             ELSE Return("[Error extracting text from PDF]")

(***************************************************************************)
(* PaperAnalyzer.                                                          *)
(***************************************************************************)
\* Config.CATEGORIES
CATEGORIES ==
    {"sales", "demand_generation", "customer_success", "customer_support",
     "solution_partners"}

\* keywords, line 411
keywords ==
    << <<"s", "a", "l", "e", "s">>,
       <<"m", "a", "r", "k", "e", "t", "i", "n", "g">>,
       <<"c", "u", "s", "t", "o", "m", "e", "r">>,
       <<"s", "u", "p", "p", "o", "r", "t">>,
       <<"a", "u", "t", "o", "m", "a", "t", "i", "o", "n">>,
       <<"a", "n", "a", "l", "y", "t", "i", "c", "s">> >>

Untitled == <<"U", "n", "t", "i", "t", "l", "e", "d">>

NoAbstract == <<"N", "o", " ", "a", "b", "s", "t", "r", "a", "c", "t", " ", "a", "v", "a", "i", "l", "a", "b", "l", "e">>

\* The upper case letters and their lower case.
UpperCase ==
    <<"A", "B", "C", "D", "E", "F", "G", "H", "I", "J", "K", "L", "M", "N",
       "O", "P", "Q", "R", "S", "T", "U", "V", "W", "X", "Y", "Z">>

LowerCase ==
    <<"a", "b", "c", "d", "e", "f", "g", "h", "i", "j", "k", "l", "m", "n",
       "o", "p", "q", "r", "s", "t", "u", "v", "w", "x", "y", "z">>

\* The lower case of each upper case letter.
LowerOf ==
    [c \in { UpperCase[u] : u \in 1..Len(UpperCase) } |->
        LowerCase[CHOOSE u \in 1..Len(UpperCase) : UpperCase[u] = c]]

\* str.lower()
lower(s) ==
    [k \in 1..Len(s) |-> IF s[k] \in DOMAIN LowerOf THEN LowerOf[s[k]] ELSE s[k]]

\* sub in s
Contains(s, sub) ==
    \E k \in 0..(Len(s) - Len(sub)) : \A j \in 1..Len(sub) : s[k + j] = sub[j]

\* s or d
OrDefault(s, d) == IF s = << >> THEN d ELSE s

\* Line 412: sum(1 for kw in keywords if kw in text_lower)
score(text_lower) ==
    Cardinality({ k \in 1..Len(keywords) : Contains(text_lower, keywords[k]) })

\* Faulty variant of Rating: two keywords are enough.
Rating_AtLeastTwo(s) == IF s >= 2 THEN "Medium" ELSE "Low"

\* Line 413: "Medium" if score > 2 else "Low"
Rating(s) == IF s > 2 THEN "Medium" ELSE "Low"

\* Lines 400-419.
_analyze_without_ai(title, abstract) ==
    LET text_lower == lower(OrDefault(title, Untitled) \o <<" ">>
                            \o OrDefault(abstract, NoAbstract))
        rating == Rating(score(text_lower))
    IN  [summary |-> "abstract and note",
         relevance |-> [c \in CATEGORIES |-> rating],
         ai_generated |-> FALSE]

\* What the analyzer meets: no ANTHROPIC_API_KEY, a model that answers, a
\* model the API does not know, another error of the API or no anthropic
\* library.
AiCases == {"no_key", "answers", "not_found", "error"}

NotFoundError == [type |-> "NotFoundError", msg |-> "Error code: 404 - not_found_error"]

APIError == [type |-> "APIError", msg |-> "Error code: 529 - overloaded_error"]

NoModels == [type |-> "Exception", msg |-> "No available models found"]

\* Line 383: "404" in str(e) or "not_found" in str(e)
IsNotFound(e) == e.type = "NotFoundError"

\* Lines 374-378: client.messages.create
CreateMessage(ai) ==
    IF ai = "answers" THEN Return("text of the message")
    ELSE IF ai = "not_found" THEN Raise(NotFoundError)
    ELSE Raise(APIError)

\* Lines 321-398; fallback is _analyze_without_ai(title, abstract), line 398.
_analyze_with_ai(ai, fallback) ==
    LET m == CreateMessage(ai)
        tried == IF ~m.raised
                 THEN Return([summary |-> m.value, relevance |-> << >>,
                              ai_generated |-> TRUE])
                 ELSE IF IsNotFound(m.exc) THEN Raise(NoModels)
                 ELSE Raise(m.exc)
    IN  IF tried.raised THEN Return(fallback)
        ELSE tried

\* Lines 309-319; use_ai is "the key is set"; fallback is
\* _analyze_without_ai(title, abstract), line 319.
analyze_paper(ai, fallback) ==
    IF ai # "no_key" THEN _analyze_with_ai(ai, fallback)
    ELSE Return(fallback)

\* The keyword analysis of each paper of the page (its abstract not found
\* on the paper's page), computed once.
PageFallback ==
    [t \in { Page[k].title : k \in 1..Len(Page) } |-> _analyze_without_ai(t, << >>)]

\* _process_paper, lines 544-553: extraction, then analysis; what they
\* return, or the exception that leaves them.
Stages(pdf, ai, title) ==
    LET x == extract_text_from_pdf(pdf)
    IN  IF x.raised THEN x
        ELSE LET a == analyze_paper(ai, PageFallback[title])
             IN  IF a.raised THEN a
                 ELSE Return([full_text |-> x.value,
                              ai_generated |-> a.value.ai_generated])

\* No extraction and no analysis for the paper: it was skipped, or it failed
\* before them.
NoStages ==
    [kept |-> TRUE, ran |-> FALSE, pdf |-> "", ai |-> "", full_text |-> "",
     ai_generated |-> FALSE, written |-> FALSE]

\* The value of pipeline in the specifications that keep no history of the
\* stages.
NotKept ==
    [kept |-> FALSE, ran |-> FALSE, pdf |-> "", ai |-> "", full_text |-> "",
     ai_generated |-> FALSE, written |-> FALSE]

(***************************************************************************)
(* State.                                                                  *)
(***************************************************************************)
VARIABLES
    pc,            \* "idle": no process; "loop": process_month is in its for loop
    exit,          \* how the last process ended
    month_str,     \* process_month: month_str
    papers,        \* process_month: papers
    i,             \* process_month: index of the next paper (from 1)
    force,         \* process_month: force
    processed,     \* process_month: processed
    skipped,       \* process_month: skipped
    failed,        \* process_month: failed
    data,          \* PaperTracker.data["papers"] of the running (or last) process
    tracker_file,  \* Config.TRACKER_FILE on disk
    md_files,      \* the *.md records on disk, by path
    dirs,          \* the month directories under Config.PAPERS_DIR
    index_file,    \* Config.INDEX_FILE on disk
    clock,         \* datetime.now()
    log,           \* history: what the loop of this run did with each paper
    fetches,       \* history: listing fetches of this process
    writes,        \* history: kinds of file this process wrote
    prev,          \* history: the process_month call of the process before this one
    pipeline,      \* history (SpecStages): what extraction and analysis did for
                   \* the paper the loop has just handled
    arg_title,     \* a call of the sanitising lines: paper['title']
    safe_title,    \* a call of the sanitising lines: safe_title
    arg_text,      \* a call of _analyze_without_ai: title and abstract
    analysis       \* a call of _analyze_without_ai: what it returned

vars == << pc, exit, month_str, papers, i, force, processed, skipped, failed,
           data, tracker_file, md_files, dirs, index_file, clock,
           log, fetches, writes, prev, pipeline,
           arg_title, safe_title, arg_text, analysis >>

\* The variables of the calls of single functions.
units == << arg_title, safe_title, arg_text, analysis >>

\* No call made, no value returned.
NotCalled == [called |-> FALSE]

\* The variables of the program.
program == << pc, exit, month_str, papers, i, force, processed, skipped, failed,
              data, tracker_file, md_files, dirs, index_file, clock,
              log, fetches, writes, prev >>

disk == << tracker_file, md_files, dirs, index_file >>

NoCall ==
    [called |-> FALSE, month_str |-> << >>, papers |-> << >>,
     processed |-> 0, skipped |-> 0, failed |-> 0, ledger |-> EmptyLedger]

InitProgram ==
    /\ pc = "idle"
    /\ exit = "none"
    /\ month_str = << >>
    /\ papers = << >>
    /\ i = 1
    /\ force = FALSE
    /\ processed = 0
    /\ skipped = 0
    /\ failed = 0
    /\ data = EmptyLedger
    /\ tracker_file = MissingFile
    /\ md_files = NoFiles
    /\ dirs = {}
    /\ index_file = NoIndex
    /\ clock = 0
    /\ log = << >>
    /\ fetches = 0
    /\ writes = {}
    /\ prev = NoCall

\* No call of a single function is made.
NoUnits ==
    /\ arg_title = << >>
    /\ safe_title = NotCalled
    /\ arg_text = << >>
    /\ analysis = NotCalled

Init == InitProgram /\ pipeline = NotKept /\ NoUnits

\* The history of the stages, where the specification keeps it.
Keep(stages) == IF pipeline.kept THEN stages ELSE pipeline

\* What prev keeps of the process before this one, when it called
\* process_month without force and the call returned: its period, its
\* listing, its counts and the ledger it left.
LastCall ==
    IF exit = "returned" /\ ~force
    THEN [called |-> TRUE, month_str |-> month_str, papers |-> papers,
          processed |-> processed, skipped |-> skipped, failed |-> failed,
          ledger |-> data]
    ELSE NoCall

(***************************************************************************)
(* main.                                                                   *)
(***************************************************************************)
\* The state of a process that has parsed its command line.
Started(a) ==
    /\ pc = "idle"
    /\ a \in MonthArgs
    /\ prev' = LastCall
    /\ i' = 1
    /\ processed' = 0
    /\ skipped' = 0
    /\ failed' = 0
    /\ log' = << >>
    /\ writes' = {}
    /\ pipeline' = Keep(NoStages)
    /\ UNCHANGED units

\* main, lines 679-684: the month does not parse; "Invalid month format" and
\* return.
MainInvalidMonth(a) ==
    /\ Started(a)
    /\ MonthRejected(a)
    /\ exit' = "invalid_month"
    /\ pc' = "idle"
    /\ month_str' = << >>
    /\ force' = FALSE
    /\ fetches' = 0
    /\ papers' = << >>
    /\ UNCHANGED << data, disk, clock >>

\* main, lines 690-703: PaperManager() raises in PaperTracker._load; caught
\* as "Fatal error". PAPERS_DIR.mkdir is not reached.
MainFatal(a) ==
    /\ Started(a)
    /\ ~MonthRejected(a)
    /\ LoadRaises(tracker_file)
    /\ exit' = "fatal"
    /\ pc' = "idle"
    /\ month_str' = << >>
    /\ force' = FALSE
    /\ fetches' = 0
    /\ papers' = << >>
    /\ UNCHANGED << data, disk, clock >>

\* main with --test: test_scraping fetches the listing and prints it.
MainTest(a) ==
    /\ Started(a)
    /\ ~MonthRejected(a)
    /\ ~LoadRaises(tracker_file)
    /\ data' = _load(tracker_file)
    /\ exit' = "test"
    /\ pc' = "idle"
    /\ month_str' = << >>
    /\ force' = FALSE
    /\ fetches' = 1
    /\ papers' = << >>
    /\ UNCHANGED << disk, clock >>

\* process_month, lines 460-477: the listing is empty; return before the
\* loop and before _update_index.
MainNoPapers(a, f) ==
    /\ Started(a)
    /\ ~MonthRejected(a)
    /\ ~LoadRaises(tracker_file)
    /\ data' = _load(tracker_file)
    /\ month_str' = MonthStr(ParseMonth(a).year, ParseMonth(a).month)
    /\ force' = f
    /\ dirs' = dirs \cup {month_str'}
    /\ fetches' = 1
    /\ papers' = << >>
    /\ exit' = "returned"
    /\ pc' = "idle"
    /\ UNCHANGED << tracker_file, md_files, index_file, clock >>

\* process_month, lines 460-482: the listing has papers; enter the loop.
MainProcess(a, f, ps) ==
    /\ Started(a)
    /\ ~MonthRejected(a)
    /\ ~LoadRaises(tracker_file)
    /\ ps \in Listings
    /\ ps # << >>
    /\ clock + Len(ps) <= MaxClock
    /\ data' = _load(tracker_file)
    /\ month_str' = MonthStr(ParseMonth(a).year, ParseMonth(a).month)
    /\ force' = f
    /\ dirs' = dirs \cup {month_str'}
    /\ fetches' = 1
    /\ papers' = ps
    /\ exit' = "running"
    /\ pc' = "loop"
    /\ UNCHANGED << tracker_file, md_files, index_file, clock >>

(***************************************************************************)
(* process_month: the loop over the papers.                                *)
(***************************************************************************)
InLoop == pc = "loop" /\ i <= Len(papers)

\* Lines 489-493: the paper is skipped.
SkipsPaper == ~force /\ is_downloaded(data, papers[i].paper_id, month_str)

\* The ledger status of the paper before its turn.
StatusBefore ==
    LET key == Key(month_str, papers[i].paper_id)
    IN  IF key \in DOMAIN data THEN data[key].status ELSE "none"

\* Faulty variant of DelayAfter: the sleep follows every paper.
DelayAfter_Always(outcome) == SleepSecs

\* Lines 495-509: time.sleep(2) is in the try block after _process_paper
\* returned; the continue of a skip and the except clause pass it by.
DelayAfter(outcome) == IF outcome \in {"complete", "failed"} THEN SleepSecs ELSE 0

\* Faulty variant of OnException: the except clause only counts the failure.
OnException_NotRecorded(d, paper_id, month, e, now) == d

\* Lines 506-509: the except clause's ledger write.
OnException(d, paper_id, month, e, now) == mark_failed(d, paper_id, month, ExcStr(e), now)

\* The loop moves on to the next paper.
NextPaper(outcome, error) ==
    /\ i' = i + 1
    /\ clock' = clock + 1
    /\ log' = Append(log, [paper_id |-> papers[i].paper_id, before |-> StatusBefore,
                           outcome |-> outcome, error |-> error,
                           delay |-> DelayAfter(outcome)])
    /\ UNCHANGED << pc, exit, month_str, papers, force, dirs, index_file,
                    fetches, prev, units >>

\* Lines 490-493.
ItemSkipped ==
    /\ InLoop
    /\ SkipsPaper
    /\ skipped' = skipped + 1
    /\ NextPaper("skipped", "")
    /\ pipeline' = Keep(NoStages)
    /\ UNCHANGED << processed, failed, data, tracker_file, md_files, writes >>

\* _process_paper, lines 533-536: the details hold no pdf_url.
ItemNoPdfUrl ==
    /\ InLoop
    /\ ~SkipsPaper
    /\ data' = mark_failed(data, papers[i].paper_id, month_str, "No PDF URL found", clock)
    /\ tracker_file' = _save(data')
    /\ writes' = writes \cup {"ledger"}
    /\ failed' = failed + 1
    /\ NextPaper("failed", "No PDF URL found")
    /\ pipeline' = Keep(NoStages)
    /\ UNCHANGED << processed, skipped, md_files >>

\* _process_paper, lines 540-542: download_pdf returns False (the request
\* failed, before the asset file is opened).
ItemDownloadFailed ==
    /\ InLoop
    /\ ~SkipsPaper
    /\ data' = mark_failed(data, papers[i].paper_id, month_str, "PDF download failed", clock)
    /\ tracker_file' = _save(data')
    /\ writes' = writes \cup {"ledger"}
    /\ failed' = failed + 1
    /\ NextPaper("failed", "PDF download failed")
    /\ pipeline' = Keep(NoStages)
    /\ UNCHANGED << processed, skipped, md_files >>

\* What extraction and analysis did for the paper, and whether its record
\* was written.
Ran(pdf, ai, title, written) ==
    LET r == Stages(pdf, ai, title)
    IN  [kept |-> TRUE, ran |-> TRUE, pdf |-> pdf, ai |-> ai,
         full_text |-> IF r.raised THEN "" ELSE r.value.full_text,
         ai_generated |-> IF r.raised THEN FALSE ELSE r.value.ai_generated,
         written |-> written]

\* The exception that leaves _process_paper after the download: that of
\* extraction or analysis, if they let one through, else the one w that
\* _create_markdown raises (open(md_path, 'w'), line 609).
PipelineRaises(pdf, ai, title, w) ==
    LET r == Stages(pdf, ai, title)
    IN  IF r.raised THEN r.exc ELSE w

\* The ways _process_paper raises after the download of the paper: what
\* extraction and analysis met, and the exception.
Failures(title) ==
    { [pdf |-> pdf, ai |-> ai, exc |-> PipelineRaises(pdf, ai, title, w)] :
        pdf \in PdfCases, ai \in AiCases, w \in Exceptions }

\* _process_paper raises after the download; process_month, lines 506-509,
\* records the failure and goes on.
ItemException ==
    /\ InLoop
    /\ ~SkipsPaper
    /\ \E e \in { f.exc : f \in Failures(papers[i].title) } :
        /\ data' = OnException(data, papers[i].paper_id, month_str, e, clock)
        /\ tracker_file' = _save(data')
        /\ writes' = writes \cup {"asset", "ledger"}
        /\ failed' = failed + 1
        /\ NextPaper("exception", ExcStr(e))
        /\ UNCHANGED << processed, skipped, md_files >>
        /\ pipeline' \in { Keep(Ran(f.pdf, f.ai, papers[i].title, FALSE)) :
                              f \in { g \in Failures(papers[i].title) : g.exc = e } }

\* _process_paper, lines 518-569, to its end: extraction and analysis
\* return, whatever they met.
ItemComplete ==
    /\ InLoop
    /\ ~SkipsPaper
    /\ md_files' = WriteFile(md_files, MdPath(month_str, papers[i].title),
                             Record(papers[i]))
    /\ data' = mark_complete(data, papers[i].paper_id, month_str,
                             Metadata(papers[i], month_str), clock)
    /\ tracker_file' = _save(data')
    /\ writes' = writes \cup {"asset", "record", "ledger"}
    /\ processed' = processed + 1
    /\ NextPaper("complete", "")
    /\ UNCHANGED << skipped, failed >>
    /\ pipeline' \in { Keep(Ran(c[1], c[2], papers[i].title, TRUE)) :
                          c \in { d \in PdfCases \X AiCases :
                                     ~Stages(d[1], d[2], papers[i].title).raised } }

\* Lines 511-516: the loop is over; _update_index, and process_month returns.
UpdateIndex ==
    /\ pc = "loop"
    /\ i > Len(papers)
    /\ index_file' = _update_index(dirs, md_files)
    /\ writes' = writes \cup {"index"}
    /\ exit' = "returned"
    /\ pc' = "idle"
    /\ UNCHANGED << month_str, papers, i, force, processed, skipped, failed,
                    data, tracker_file, md_files, dirs, clock, log, fetches,
                    prev, units >>
    /\ pipeline' = Keep(NoStages)

(***************************************************************************)
(* KeyboardInterrupt: main, lines 698-699. It is no Exception, so the      *)
(* except clause of the loop lets it through and the process ends.         *)
(***************************************************************************)
Interrupted ==
    /\ clock < MaxClock
    /\ clock' = clock + 1
    /\ exit' = "interrupted"
    /\ pc' = "idle"
    /\ pipeline' = Keep(NoStages)
    /\ UNCHANGED << month_str, papers, i, force, processed, skipped, failed,
                    dirs, log, fetches, prev, units >>

\* Away from the ledger, record and index writes: while fetching details,
\* downloading, analysing, sleeping or printing.
InterruptBetween ==
    /\ pc = "loop"
    /\ Interrupted
    /\ UNCHANGED << data, tracker_file, md_files, index_file, writes >>

\* In _create_markdown, after open(md_path, 'w').
InterruptMarkdown ==
    /\ InLoop
    /\ ~SkipsPaper
    /\ Interrupted
    /\ md_files' = WriteFile(md_files, MdPath(month_str, papers[i].title),
                             TruncatedRecord)
    /\ writes' = writes \cup {"asset", "record"}
    /\ UNCHANGED << data, tracker_file, index_file >>

\* In the _save of mark_failed (line 535), after open(tracker_file, 'w').
InterruptSaveFailed ==
    /\ InLoop
    /\ ~SkipsPaper
    /\ Interrupted
    /\ data' = mark_failed(data, papers[i].paper_id, month_str, "No PDF URL found", clock)
    /\ tracker_file' = TruncatedFile
    /\ writes' = writes \cup {"ledger"}
    /\ UNCHANGED << md_files, index_file >>

\* In the _save of mark_complete (line 566), after open(tracker_file, 'w').
InterruptSaveComplete ==
    /\ InLoop
    /\ ~SkipsPaper
    /\ Interrupted
    /\ md_files' = WriteFile(md_files, MdPath(month_str, papers[i].title),
                             Record(papers[i]))
    /\ data' = mark_complete(data, papers[i].paper_id, month_str,
                             Metadata(papers[i], month_str), clock)
    /\ tracker_file' = TruncatedFile
    /\ writes' = writes \cup {"asset", "record", "ledger"}
    /\ UNCHANGED << index_file >>

\* In _update_index, after open(Config.INDEX_FILE, 'w').
InterruptIndex ==
    /\ pc = "loop"
    /\ i > Len(papers)
    /\ Interrupted
    /\ index_file' = TruncatedIndex
    /\ writes' = writes \cup {"index"}
    /\ UNCHANGED << data, tracker_file, md_files >>

(***************************************************************************)
(* The specification.                                                      *)
(***************************************************************************)
Next ==
    \/ \E a \in MonthArgs : MainInvalidMonth(a)
    \/ \E a \in MonthArgs : MainFatal(a)
    \/ \E a \in MonthArgs : MainTest(a)
    \/ \E a \in MonthArgs, f \in BOOLEAN : MainNoPapers(a, f)
    \/ \E a \in MonthArgs, f \in BOOLEAN, ps \in Listings : MainProcess(a, f, ps)
    \/ ItemSkipped
    \/ ItemNoPdfUrl
    \/ ItemDownloadFailed
    \/ ItemException
    \/ ItemComplete
    \/ UpdateIndex
    \/ InterruptBetween
    \/ InterruptMarkdown
    \/ InterruptSaveFailed
    \/ InterruptSaveComplete
    \/ InterruptIndex

Spec == Init /\ [][Next]_vars

(***************************************************************************)
(* Runs of process_month on listings with papers, none interrupted, with   *)
(* the history of the stages.                                              *)
(***************************************************************************)
InitStages == InitProgram /\ pipeline = NoStages /\ NoUnits

NextStages ==
    \/ \E a \in MonthArgs, f \in BOOLEAN, ps \in Listings : MainProcess(a, f, ps)
    \/ ItemSkipped
    \/ ItemNoPdfUrl
    \/ ItemDownloadFailed
    \/ ItemException
    \/ ItemComplete
    \/ UpdateIndex

SpecStages == InitStages /\ [][NextStages]_vars

(***************************************************************************)
(* Calls of single functions: the sanitising lines of _process_paper and   *)
(* _analyze_without_ai, each called once on an argument drawn from a set.  *)
(***************************************************************************)
\* How far the lengths of the titles go around TitleLimit.
Slack == 2

\* n times the letter a.
Fill(n) == [k \in 1..n |-> "a"]

TitleHeads ==
    { << >>, <<":">>, <<"!", "#", "-", "b">>, <<"U+00E9", ":", " ", "\t">>,
      <<"a", " ", "\t", " ">>,
      <<"A", ".", " ", ":", " ">> }

TitleTails ==
    { << >>, <<"b">>, <<" ", " ", "b">>, <<":", "b", "U+00E9">>, <<" ", "\t">> }

FillLengths == (0..Slack) \cup ((TitleLimit - Slack)..(TitleLimit + Slack))

\* The titles given to the sanitising lines: punctuation, white space and
\* letters before and after a run of letters, short of, at and past the
\* hundredth character.
SanitizerTitles ==
    { h \o Fill(n) \o t : h \in TitleHeads, n \in FillLengths, t \in TitleTails }

\* The titles and abstracts given to _analyze_without_ai, each with the
\* keywords that occur in it.
AnalyzerTitles ==
    { [text |-> << >>,
       kws |-> {}],
      [text |-> <<"D", "a", "t", "a">>,
       kws |-> {}],
      [text |-> <<"S", "a", "l", "e", "s">>,
       kws |-> {"sales"}],
      [text |-> <<"C", "u", "s", "t", "o", "m", "e", "r", " ", "S", "U", "P", "P", "O", "R", "T">>,
       kws |-> {"customer", "support"}] }

AnalyzerAbstracts ==
    { [text |-> << >>,
       kws |-> {}],
      [text |-> <<"d", "a", "t", "a">>,
       kws |-> {}],
      [text |-> <<"s", "a", "l", "e", "s", " ", "s", "a", "l", "e", "s", " ", "s", "a", "l", "e", "s">>,
       kws |-> {"sales"}],
      [text |-> <<"M", "a", "r", "k", "e", "t", "i", "n", "g">>,
       kws |-> {"marketing"}],
      [text |-> <<"m", "a", "r", "k", "e", "t", "i", "n", "g", " ", "a", "u", "t", "o", "m", "a", "t", "i", "o", "n">>,
       kws |-> {"marketing", "automation"}],
      [text |-> <<"s", "a", "l", "e", "s", "a", "u", "t", "o", "m", "a", "t", "i", "o", "n", " ", "a", "n", "a", "l", "y", "t", "i", "c", "s">>,
       kws |-> {"sales", "automation", "analytics"}],
      [text |-> <<"c", "u", "s", "t", "o", "m", "e", "r", " ", "s", "u", "p", "p", "o", "r", "t", " ", "s", "a", "l", "e", "s", " ", "a", "n", "a", "l", "y", "t", "i", "c", "s">>,
       kws |-> {"customer", "support", "sales", "analytics"}] }

AnalyzerTexts ==
    { [title |-> t, abstract |-> a] : t \in AnalyzerTitles, a \in AnalyzerAbstracts }

InitUnits ==
    /\ InitProgram
    /\ pipeline = NotKept
    /\ arg_title \in SanitizerTitles
    /\ safe_title = NotCalled
    /\ arg_text \in AnalyzerTexts
    /\ analysis = NotCalled

\* Lines 523-524 on arg_title.
Sanitize ==
    /\ ~safe_title.called
    /\ safe_title' = [called |-> TRUE, value |-> SafeTitle(arg_title)]
    /\ UNCHANGED << program, pipeline, arg_title, arg_text, analysis >>

\* _analyze_without_ai on arg_text.
Analyze ==
    /\ ~analysis.called
    /\ analysis' = [called |-> TRUE,
                    value |-> _analyze_without_ai(arg_text.title.text,
                                                  arg_text.abstract.text)]
    /\ UNCHANGED << program, pipeline, arg_title, safe_title, arg_text >>

NextUnits == Sanitize \/ Analyze

SpecUnits == InitUnits /\ [][NextUnits]_vars

(***************************************************************************)
(* Properties.                                                             *)
(***************************************************************************)
\* process_month returned (it was not interrupted).
Returned == pc = "idle" /\ exit = "returned"

\* This process and the one before it both called process_month without
\* force, for the same period, with the same listing, and both calls returned.
SameCallTwice ==
    /\ Returned
    /\ ~force
    /\ prev.called
    /\ prev.month_str = month_str
    /\ prev.papers = papers

\* The ledger key of the j-th paper this run handled, spelled out.
LogKey(j) == month_str \o <<"/">> \o log[j].paper_id

\* C1 as claimed: after the second of two identical runs without force the
\* ledger equals the ledger after the first, and the second run's skipped
\* count equals the first run's processed count.
C1_Original ==
    SameCallTwice => data = prev.ledger /\ skipped = prev.processed

\* C1 as amended: the second run leaves every complete entry as the first
\* left it, the whole ledger when the first run had no failure, and skips as
\* many papers as the first run processed or skipped.
C1_Idempotent ==
    SameCallTwice =>
        /\ \A k \in DOMAIN prev.ledger :
               prev.ledger[k].status = "complete" =>
                   k \in DOMAIN data /\ data[k] = prev.ledger[k]
        /\ prev.failed = 0 => data = prev.ledger
        /\ skipped = prev.processed + prev.skipped

\* C1 witness: a second identical run that skipped what the first processed.
C1_Witness ==
    /\ SameCallTwice
    /\ prev.processed > 0
    /\ skipped = prev.processed
    /\ data = prev.ledger

\* C2: a step changes a ledger entry only for the key "{period}/{id}" of the
\* paper at hand, and a step of a run without force leaves every complete
\* entry as it is.
C2_KeyAndComplete ==
    [][ /\ \A k \in DOMAIN data' :
               (k \notin DOMAIN data \/ data'[k] # data[k]) =>
                   /\ InLoop
                   /\ k = month_str \o <<"/">> \o papers[i].paper_id
        /\ \A k \in DOMAIN data :
               (data[k].status = "complete" /\ ~(pc = "loop" /\ force)) =>
                   k \in DOMAIN data' /\ data'[k] = data[k]
      ]_vars

\* C2 witness: a run without force has just passed by a paper whose entry,
\* under the key "{period}/{id}", is complete.
C2_Witness ==
    /\ pc = "loop"
    /\ ~force
    /\ log # << >>
    /\ log[Len(log)].outcome = "skipped"
    /\ LogKey(Len(log)) \in DOMAIN data
    /\ data[LogKey(Len(log))].status = "complete"

\* C3 as claimed: a paper whose entry is failed is attempted again only by a
\* run with force.
C3_Original ==
    \A j \in 1..Len(log) :
        (log[j].before = "failed" /\ log[j].outcome # "skipped") => force

\* C3 as amended: a run handles each listed paper once, in order, and skips
\* a paper exactly when it runs without force and the paper's entry is
\* complete; so failed papers are attempted again by every run, and a run
\* with force attempts every paper.
C3_RetryRule ==
    /\ Len(log) = i - 1
    /\ Len(log) <= Len(papers)
    /\ \A j \in 1..Len(log) :
           /\ log[j].paper_id = papers[j].paper_id
           /\ (log[j].outcome = "skipped") <=> (~force /\ log[j].before = "complete")

\* C3 witness: a run with force attempted a paper whose entry was complete.
C3_Witness ==
    /\ force
    /\ \E j \in 1..Len(log) : log[j].before = "complete" /\ log[j].outcome # "skipped"

\* C4: a paper whose pipeline raised has a failed entry with the exception's
\* string, and the run went on: it is in its loop, or was interrupted later,
\* or returned after handling every listed paper.
C4_ExceptionContained ==
    \A j \in 1..Len(log) :
        log[j].outcome = "exception" =>
            /\ LogKey(j) \in DOMAIN data
            /\ data[LogKey(j)].status = "failed"
            /\ data[LogKey(j)].error \in { ExcStr(e) : e \in Exceptions }
            /\ data[LogKey(j)].error = log[j].error
            /\ \/ pc = "loop"
               \/ exit = "interrupted"
               \/ Returned /\ Len(log) = Len(papers)

\* C4 witness: a paper raised and the next paper was processed to the end.
C4_Witness ==
    \E j \in 1..Len(log) :
        /\ j < Len(log)
        /\ log[j].outcome = "exception"
        /\ log[j + 1].outcome = "complete"

\* C5 as claimed: every paper that is followed by another one is followed
\* by the 2-second delay, whatever its outcome.
C5_Original ==
    \A j \in 1..Len(log) : j < Len(log) => log[j].delay = SleepSecs

\* C5 as amended: the delay follows exactly the papers whose pipeline
\* returned (complete, or failed by a returned failure); a skipped paper and
\* a paper whose pipeline raised are followed by no delay.
C5_DelayRule ==
    \A j \in 1..Len(log) :
        /\ log[j].outcome \in {"complete", "failed"} => log[j].delay = SleepSecs
        /\ log[j].outcome \in {"skipped", "exception"} => log[j].delay = 0

\* C5 witness: one run skipped a paper without delay and completed the next
\* one with the delay.
C5_Witness ==
    \E j \in 1..Len(log) :
        /\ j < Len(log)
        /\ log[j].outcome = "skipped" /\ log[j].delay = 0
        /\ log[j + 1].outcome = "complete" /\ log[j + 1].delay = SleepSecs

\* C6 as claimed: after an interruption the ledger file loads and holds the
\* outcome of every paper the run finished.
C6_Claim ==
    exit = "interrupted" =>
        /\ ~LoadRaises(tracker_file)
        /\ \A j \in 1..Len(log) :
               log[j].outcome # "skipped" =>
                   /\ LogKey(j) \in DOMAIN _load(tracker_file)
                   /\ _load(tracker_file)[LogKey(j)].status =
                          (IF log[j].outcome = "complete" THEN "complete" ELSE "failed")

\* C7: while process_month runs and when it has returned, the ledger file
\* holds the in-memory ledger; and a step of a running process that changes
\* the in-memory ledger leaves that ledger in the file.
C7_WriteThrough ==
    /\ []((pc = "loop" \/ Returned) =>
              /\ ~LoadRaises(tracker_file)
              /\ _load(tracker_file) = data
              /\ data # EmptyLedger => tracker_file.kind = "json")
    /\ [][(data' # data /\ exit' # "interrupted") =>
              tracker_file' = [kind |-> "json", papers |-> data']]_vars

\* C7 witness: in the loop, with a complete and a failed entry in memory and
\* the same ledger in the file.
C7_Witness ==
    /\ pc = "loop"
    /\ \E k \in DOMAIN data : data[k].status = "complete"
    /\ \E k \in DOMAIN data : data[k].status = "failed"
    /\ tracker_file = [kind |-> "json", papers |-> data]

\* The month number of a period string, and whether it is a month.
PeriodMonth(ms) == ParseInt(Split(ms, "-")[2])

ValidPeriod(ms) == PeriodMonth(ms) \in 1..12

\* C8 as claimed: a process whose ledger file was malformed at startup, or
\* whose --month is no valid month, fetches no listing, handles no paper and
\* writes no file.
C8_Claim ==
    (\/ exit \in {"invalid_month", "fatal"}
     \/ month_str # << >> /\ ~ValidPeriod(month_str)) =>
        /\ fetches = 0
        /\ pc = "idle"
        /\ log = << >>
        /\ writes = {}

\* C9 as claimed: two papers with complete entries for the same period share
\* neither record path nor asset path, and the record file of a paper with a
\* complete entry holds that paper's record.
C9_Claim ==
    /\ \A k1, k2 \in DOMAIN data :
           (/\ k1 # k2
            /\ data[k1].status = "complete"
            /\ data[k2].status = "complete"
            /\ data[k1].metadata.md_path.dir = data[k2].metadata.md_path.dir) =>
               /\ data[k1].metadata.md_path # data[k2].metadata.md_path
               /\ data[k1].metadata.pdf_path # data[k2].metadata.pdf_path
    /\ \A k \in DOMAIN data :
           data[k].status = "complete" =>
               LET path == data[k].metadata.md_path
               IN  /\ path \in DOMAIN md_files
                   /\ path.dir \o <<"/">> \o md_files[path].paper_id = k

\* The index lists exactly the record files that exist, under month headings
\* in reverse lexicographic order, with their number as its total.
IndexListsRecords ==
    LET lines == index_file.lines
        heads == SelectSeq(lines, LAMBDA l : l.heading)
        items == SelectSeq(lines, LAMBDA l : ~l.heading)
    IN  /\ index_file.kind = "written"
        /\ index_file.total = Cardinality(DOMAIN md_files)
        /\ Len(items) = Cardinality(DOMAIN md_files)
        /\ { items[k].path : k \in 1..Len(items) } = DOMAIN md_files
        /\ \A j, k \in 1..Len(heads) : j < k => StrLess(heads[k].month, heads[j].month)
        /\ \A k \in 1..Len(lines) :
               ~lines[k].heading =>
                   \E h \in 1..(k - 1) :
                       /\ lines[h].heading
                       /\ lines[h].month = lines[k].path.dir
                       /\ \A m \in (h + 1)..k : ~lines[m].heading

\* C10 as claimed: every process_month call that returned has rebuilt the
\* index, for an empty listing too.
C10_Original == Returned => IndexListsRecords

\* C10 as amended: every process_month call that returned after a listing
\* with papers has rebuilt the index.
C10_IndexRebuilt == (Returned /\ papers # << >>) => IndexListsRecords

\* C10 witness: a call returned with records of two periods in the index.
C10_Witness ==
    /\ Returned
    /\ papers # << >>
    /\ IndexListsRecords
    /\ Len(SelectSeq(index_file.lines, LAMBDA l : l.heading)) = 2

(***************************************************************************)
(* File name stems (SpecUnits).                                            *)
(***************************************************************************)
\* The number of white space runs of s.
SpaceRuns(s) ==
    Cardinality({ k \in 1..Len(s) : IsSpace(s[k]) /\ (k = 1 \/ ~IsSpace(s[k - 1])) })

Hyphens(s) == Len(SelectSeq(s, LAMBDA c : c = "-"))

\* C11 as stated: the stem has no character outside [A-Za-z0-9_-], and it is
\* the stem of the first 100 characters of the title (the characters past
\* the hundredth have no influence on it).
C11_Original ==
    safe_title.called =>
        LET stem == safe_title.value
        IN  /\ \A k \in 1..Len(stem) : IsAsciiWord(stem[k]) \/ stem[k] = "-"
            /\ stem = SafeTitle(Truncate(arg_title, TitleLimit))

\* C11, amended: for every title, the stem has at most 100 characters, each
\* a word character of Unicode (a letter, a digit or the underscore, not
\* only [A-Za-z0-9_]) or a hyphen; it is made from the first 100 characters
\* that are left of the title once the characters other than word
\* characters, white space and hyphens are removed (the cut follows the
\* removal, so a character past the hundredth counts when a removed one
\* precedes it): its characters other than hyphens are the word characters
\* of these 100, in order, and it has one hyphen for each of their hyphens
\* and one for each of their white space runs.
C11_Sanitized ==
    safe_title.called =>
        LET stem == safe_title.value
            kept == Truncate(SelectSeq(arg_title,
                                       LAMBDA c : IsWord(c) \/ IsSpace(c) \/ c = "-"),
                             TitleLimit)
        IN  /\ Len(stem) <= TitleLimit
            /\ \A k \in 1..Len(stem) : IsWord(stem[k]) \/ stem[k] = "-"
            /\ SelectSeq(stem, LAMBDA c : c # "-") = SelectSeq(kept, IsWord)
            /\ Hyphens(stem) = Hyphens(kept) + SpaceRuns(kept)

\* A title of more than 100 characters with punctuation, a white space run
\* and a letter outside ASCII has its stem, made of 100 characters of which
\* one lies past the hundredth of the title.
C11_Witness ==
    /\ safe_title.called
    /\ Len(arg_title) > TitleLimit
    /\ \E k \in 1..TitleLimit : arg_title[k] = ":"
    /\ \E k \in 2..TitleLimit : IsSpace(arg_title[k - 1]) /\ IsSpace(arg_title[k])
    /\ \E k \in 1..Len(safe_title.value) : safe_title.value[k] = "U+00E9"
    /\ safe_title.value # SafeTitle(Truncate(arg_title, TitleLimit))

(***************************************************************************)
(* The keyword classifier (SpecUnits).                                     *)
(***************************************************************************)
\* The keyword matches of title and abstract: the keywords of the list that
\* occur in one of them, in either case, each counted once.
Matches == Cardinality(arg_text.title.kws \cup arg_text.abstract.kws)

\* C12: _analyze_without_ai rates every category of Config.CATEGORIES, each
\* Low or Medium: Medium when title and abstract hold 3 or more of the
\* keywords, Low when they hold fewer, so Low for all with no match and
\* Medium for all with 3 or more.
C12_KeywordRating ==
    analysis.called =>
        LET relevance == analysis.value.relevance
        IN  /\ DOMAIN relevance = CATEGORIES
            /\ ~analysis.value.ai_generated
            /\ \A c \in CATEGORIES :
                    /\ relevance[c] \in {"Low", "Medium"}
                    /\ relevance[c] = "Medium" <=> Matches >= 3
                    /\ Matches = 0 => relevance[c] = "Low"

\* A title and an abstract with exactly three of the keywords, one of them
\* in the title and capitalised, are rated Medium in every category.
C12_Witness ==
    /\ analysis.called
    /\ Matches = 3
    /\ arg_text.title.kws # {}
    /\ arg_text.abstract.kws # {}
    /\ \A c \in CATEGORIES : analysis.value.relevance[c] = "Medium"

(***************************************************************************)
(* Extraction and analysis degrade (SpecStages).                           *)
(***************************************************************************)
\* str(e) of the exceptions a record write raises.
WriteErrors == { ExcStr(e) : e \in Exceptions }

====
